---- MODULE Spec2Model ----
(***************************************************************************)
(* Model of src/app.py, the Streamlit spending dashboard.                  *)
(*                                                                         *)
(* Streamlit runs the whole script again after every interaction, so each  *)
(* action below is one interaction followed by one complete run of the     *)
(* script: load_and_clean_data, the filter widgets, the mask, the KPI      *)
(* totals and the transaction listing.                                     *)
(*                                                                         *)
(* An uploaded file is a sequence of lines, a line a sequence of fields,   *)
(* a field a record [k, v, pad]:                                           *)
(*   k = "text"   free text number v, pad = it carries surrounding blanks  *)
(*   k = "date"   text that pd.to_datetime parses, as calendar day v       *)
(*   k = "num"    text that pandas parses as the number v                  *)
(*   k = "empty"  the empty string                                         *)
(*   k = "nan"    pandas' missing value (never in a file, only in a table) *)
(* Money is counted in whole units, days are numbered from 1.              *)
(***************************************************************************)
EXTENDS Integers, Sequences, FiniteSets

VARIABLES
    uploaded_file,        \* st.sidebar.file_uploader: <<>> is None
    date_range,           \* value of the date_input widget: <<s, e>>, <<s>> or <<>>
    selected_categories,  \* value of the category multiselect
    selected_accounts,    \* value of the account multiselect
    status,               \* "idle" (no file), "ok", "error" (except branch)
    raw_df,               \* the table load_and_clean_data returned
    start_date,
    end_date,
    filtered_df,
    total_expense,
    total_income,
    net_flow,
    display_df,           \* the table handed to st.dataframe
    parses                \* calls of load_and_clean_data since the current upload

vars ==
    <<uploaded_file, date_range, selected_categories, selected_accounts, status,
      raw_df, start_date, end_date, filtered_df, total_expense, total_income,
      net_flow, display_df, parses>>

----------------------------------------------------------------------------
(* Bounds of the model *)

MaxLines == 2
MaxParses == 3

----------------------------------------------------------------------------
(* Fields and the input files *)

T(v) == [k |-> "text", v |-> v, pad |-> FALSE]
TP(v) == [k |-> "text", v |-> v, pad |-> TRUE]
D(v) == [k |-> "date", v |-> v, pad |-> FALSE]
N(v) == [k |-> "num", v |-> v, pad |-> FALSE]
Empty == [k |-> "empty", v |-> 0, pad |-> FALSE]
NaN == [k |-> "nan", v |-> 0, pad |-> FALSE]

\* An ordinary expense line: account 1, day 1, category 3.
LineExpense == <<T(1), D(1), T(5), N(2), N(0), T(3)>>
\* An income line on day 2 with non-numeric text in the expense field and a
\* category written with surrounding blanks.
LineIncome == <<T(2), D(2), T(6), T(9), N(3), TP(3)>>
\* A negative expense and an empty income field, on day 3.
LineNegative == <<T(1), D(3), T(5), N(-1), Empty, T(4)>>
\* A date field that no date format parses.
LineBadDate == <<T(1), T(9), T(5), N(1), N(0), T(3)>>
\* Only four fields.
LineShort == <<T(2), D(1), T(6), N(4)>>
\* A description holding the delimiter: seven fields.
LineLong == <<T(1), D(1), T(5), T(6), N(2), N(0), T(3)>>

Lines ==
    {LineExpense, LineIncome, LineNegative, LineBadDate, LineShort, LineLong}

RECURSIVE SeqsUpTo(_, _)
SeqsUpTo(S, n) ==
    IF n = 0 THEN {<<>>}
    ELSE LET shorter == SeqsUpTo(S, n - 1)
         IN  shorter \cup {Append(s, x) : s \in {t \in shorter : Len(t) = n - 1}, x \in S}

Files == SeqsUpTo(Lines, MaxLines) \ {<<>>}

NoFile == <<>>

----------------------------------------------------------------------------
(* load_and_clean_data *)

\* len(col_names)
ColCount == 6

\* pandas' NaT, the missing date; real days are numbered from 1.
NaT == 0

Max(a, b) == IF a >= b THEN a ELSE b

\* The number of fields read_csv expects on every line: the count of the first
\* line when that exceeds the six names, else six.
ExpectedFields(file) == Max(Len(file[1]), ColCount)

\* With more fields on the first line than names, read_csv takes the leading
\* surplus fields as the index and names the last six.
LeadingCols(file) == ExpectedFields(file) - ColCount

\* read_csv raises ParserError ("Expected n fields in line i, saw m") on a
\* later line with more fields than expected.
TokenizeError(file) ==
    \E i \in 2..Len(file) : Len(file[i]) > ExpectedFields(file)

\* Field j of a line as read_csv stores it: a line with fewer fields is padded
\* with NaN, and an empty field is read as NaN.
Cell(line, j) ==
    IF j > Len(line) \/ line[j].k = "empty" THEN NaN ELSE line[j]

\* pd.read_csv(uploaded_file, header=None, names=col_names): one row per line.
read_csv(file) ==
    [i \in 1..Len(file) |->
        LET lead == LeadingCols(file)
        IN  [line        |-> i,
             Account     |-> Cell(file[i], lead + 1),
             Date        |-> Cell(file[i], lead + 2),
             Description |-> Cell(file[i], lead + 3),
             Expense     |-> Cell(file[i], lead + 4),
             Income      |-> Cell(file[i], lead + 5),
             Category    |-> Cell(file[i], lead + 6)]]

\* .str.strip() on a string column; NaN stays NaN.
Strip(f) == IF f.k = "text" THEN [f EXCEPT !.pad = FALSE] ELSE f

\* pd.to_datetime(df['Date']) raises as soon as one value is no date; a
\* missing value becomes NaT.  (The files of this model put dates, free text
\* or nothing in the columns that reach it.)
DateRaises(rows) ==
    \E i \in 1..Len(rows) : rows[i].Date.k \notin {"date", "nan"}

to_datetime(f) == IF f.k = "date" THEN f.v ELSE NaT

\* pd.to_numeric(..., errors='coerce'): what is no number becomes NaN.
to_numeric(f) == IF f.k = "num" THEN f ELSE NaN

\* .fillna(0)
fillna(f) == IF f.k = "nan" THEN 0 ELSE f.v

CleanRow(r) ==
    [line        |-> r.line,
     Account     |-> Strip(r.Account),
     Date        |-> to_datetime(r.Date),
     Description |-> Strip(r.Description),
     Expense     |-> fillna(to_numeric(r.Expense)),
     Income      |-> fillna(to_numeric(r.Income)),
     Category    |-> Strip(r.Category)]

\* A variant that drops the rows whose amounts are not numbers instead of
\* filling them with 0.
CleanRowsDropNa(rows) ==
    LET numeric(r) ==
            /\ to_numeric(r.Expense).k = "num"
            /\ to_numeric(r.Income).k = "num"
        kept == SelectSeq(rows, numeric)
    IN  [i \in 1..Len(kept) |-> CleanRow(kept[i])]

\* Lines 16-27 applied to the table read_csv returned.
CleanRows(rows) ==
    [i \in 1..Len(rows) |-> CleanRow(rows[i])]

\* The script reaches the except branch when read_csv or to_datetime raises.
LoadRaises(file) == TokenizeError(file) \/ DateRaises(read_csv(file))

\* Date order of sort_values('Date'): ascending, NaT last.
DateLE(a, b) == b = NaT \/ (a # NaT /\ a <= b)

\* df.sort_values('Date') uses an unstable sort: rows of one date may come out
\* in any order.  Every table it can return:
SortedTables(rows) ==
    LET n == Len(rows)
        perms == {p \in [1..n -> 1..n] : \A i, j \in 1..n : i # j => p[i] # p[j]}
    IN  {[i \in 1..n |-> rows[p[i]]] :
            p \in {q \in perms :
                     \A i, j \in 1..n : i < j => DateLE(rows[q[i]].Date, rows[q[j]].Date)}}

\* The tables load_and_clean_data(uploaded_file) can return when it returns.
load_and_clean_data(file) == SortedTables(CleanRows(read_csv(file)))

----------------------------------------------------------------------------
(* The script after load_and_clean_data: filters, totals, listing *)

Dates(df) == {df[i].Date : i \in 1..Len(df)} \ {NaT}

\* raw_df['Date'].min() and .max() skip NaT.
min_date(df) == CHOOSE d \in Dates(df) : \A x \in Dates(df) : d <= x
max_date(df) == CHOOSE d \in Dates(df) : \A x \in Dates(df) : x <= d

\* raw_df['Category'].unique() and raw_df['Account'].unique(); NaN is a value.
all_categories(df) == {df[i].Category : i \in 1..Len(df)}
all_accounts(df) == {df[i].Account : i \in 1..Len(df)}

\* The date_input widget is only built when the data spans several days.
HasDateWidget(df) == min_date(df) # max_date(df)

\* start_date, end_date: the widget's pair, or the whole span when the widget
\* is absent or holds a single date (len(date_range) # 2).
StartOf(df, dr) == IF HasDateWidget(df) /\ Len(dr) = 2 THEN dr[1] ELSE min_date(df)
EndOf(df, dr) == IF HasDateWidget(df) /\ Len(dr) = 2 THEN dr[2] ELSE max_date(df)

\* A mask whose upper date bound is exclusive.
maskExclusiveEnd(r, s, e, cats, accts) ==
    /\ r.Date # NaT
    /\ r.Date >= s
    /\ r.Date < e
    /\ r.Category \in cats
    /\ r.Account \in accts

\* A mask that reads an empty category selection as "all categories".
maskEmptyIsAll(r, s, e, cats, accts) ==
    /\ r.Date # NaT
    /\ r.Date >= s
    /\ r.Date <= e
    /\ (cats = {} \/ r.Category \in cats)
    /\ r.Account \in accts

\* mask, for one row: a comparison with NaT is False, isin matches NaN with NaN.
mask(r, s, e, cats, accts) ==
    /\ r.Date # NaT
    /\ r.Date >= s
    /\ r.Date <= e
    /\ r.Category \in cats
    /\ r.Account \in accts

\* raw_df[mask]
Filter(df, s, e, cats, accts) ==
    LET keep(r) == mask(r, s, e, cats, accts)
    IN  SelectSeq(df, keep)

\* A sum that adds up the Income column whatever column is asked for.
RECURSIVE SumIncomeOnly(_, _)
SumIncomeOnly(df, col) ==
    IF df = <<>> THEN 0 ELSE Head(df).Income + SumIncomeOnly(Tail(df), col)

\* df[col].sum()
RECURSIVE Sum(_, _)
Sum(df, col) ==
    IF df = <<>> THEN 0 ELSE Head(df)[col] + Sum(Tail(df), col)

\* .dt.strftime('%d %b %Y'): the date as text.
strftime(d) == [text |-> "%d %b %Y", of |-> d]

\* lambda x: f"${x:,.2f}" if x > 0 else "-"
FormatAmount(x) ==
    IF x > 0 THEN [text |-> "$", of |-> x] ELSE [text |-> "-", of |-> 0]

\* A listing that turns the rows round, the last row first.
DisplayReversed(df) ==
    [i \in 1..Len(df) |->
        [df[Len(df) + 1 - i] EXCEPT !.Date = strftime(@),
                                   !.Expense = FormatAmount(@),
                                   !.Income = FormatAmount(@)]]

\* display_df: a copy of filtered_df with the three columns formatted.
Display(df) ==
    [i \in 1..Len(df) |->
        [df[i] EXCEPT !.Date = strftime(@),
                      !.Expense = FormatAmount(@),
                      !.Income = FormatAmount(@)]]

\* One run of the script over the table df with the widgets at dr, cats, accts:
\* what the page then shows.
Script(df, dr, cats, accts) ==
    LET s == StartOf(df, dr)
        e == EndOf(df, dr)
        f == Filter(df, s, e, cats, accts)
        expense == Sum(f, "Expense")
        income == Sum(f, "Income")
    IN  [status              |-> "ok",
         raw_df              |-> df,
         date_range          |-> IF HasDateWidget(df) THEN dr ELSE <<>>,
         selected_categories |-> cats,
         selected_accounts   |-> accts,
         start_date          |-> s,
         end_date            |-> e,
         filtered_df         |-> f,
         total_expense       |-> expense,
         total_income        |-> income,
         net_flow            |-> income - expense,
         display_df          |-> Display(f)]

\* Nothing of the dashboard is shown: no file ("idle"), or the except branch
\* ("error").
Blank(st) ==
    [status              |-> st,
     raw_df              |-> <<>>,
     date_range          |-> <<>>,
     selected_categories |-> {},
     selected_accounts   |-> {},
     start_date          |-> NaT,
     end_date            |-> NaT,
     filtered_df         |-> <<>>,
     total_expense       |-> 0,
     total_income        |-> 0,
     net_flow            |-> 0,
     display_df          |-> <<>>]

\* The page after the first run of the script on a new upload, the filter
\* widgets at their defaults: the whole span, every category, every account.
\* A table without any date makes the date filter raise.
FirstRun(file) ==
    IF LoadRaises(file)
    THEN {Blank("error")}
    ELSE {IF Dates(df) = {}
          THEN Blank("error")
          ELSE Script(df, <<min_date(df), max_date(df)>>,
                      all_categories(df), all_accounts(df)) :
            df \in load_and_clean_data(file)}

\* Every file a user can upload, with a page it can lead to.
Uploads ==
    UNION {{[file |-> file, page |-> page] : page \in FirstRun(file)} : file \in Files}

----------------------------------------------------------------------------
(* Interactions *)

Init ==
    /\ uploaded_file = NoFile
    /\ date_range = <<>>
    /\ selected_categories = {}
    /\ selected_accounts = {}
    /\ status = "idle"
    /\ raw_df = <<>>
    /\ start_date = NaT
    /\ end_date = NaT
    /\ filtered_df = <<>>
    /\ total_expense = 0
    /\ total_income = 0
    /\ net_flow = 0
    /\ display_df = <<>>
    /\ parses = 0

\* The script has run and the page shows its results.
Show(page) ==
    /\ status' = page.status
    /\ raw_df' = page.raw_df
    /\ date_range' = page.date_range
    /\ selected_categories' = page.selected_categories
    /\ selected_accounts' = page.selected_accounts
    /\ start_date' = page.start_date
    /\ end_date' = page.end_date
    /\ filtered_df' = page.filtered_df
    /\ total_expense' = page.total_expense
    /\ total_income' = page.total_income
    /\ net_flow' = page.net_flow
    /\ display_df' = page.display_df

\* The user uploads a file (replacing the one there, if any); the script runs
\* load_and_clean_data on it and the filter widgets are new.
Upload ==
    \E u \in Uploads :
        /\ uploaded_file' = u.file
        /\ parses' = 1
        /\ Show(u.page)

\* The user removes the file from the uploader.
RemoveFile ==
    /\ uploaded_file # NoFile
    /\ uploaded_file' = NoFile
    /\ parses' = 0
    /\ Show(Blank("idle"))

\* A widget changed: the script runs again and calls load_and_clean_data on
\* the same upload, which returns the same table.
Rerun(dr, cats, accts) ==
    /\ status = "ok"
    /\ parses < MaxParses
    /\ parses' = parses + 1
    /\ UNCHANGED uploaded_file
    /\ Show(Script(raw_df, dr, cats, accts))

\* The user picks both ends of the date range.
SelectDateRange ==
    /\ status = "ok"
    /\ HasDateWidget(raw_df)
    /\ \E s, e \in min_date(raw_df)..max_date(raw_df) :
        /\ s <= e
        /\ <<s, e>> # date_range
        /\ Rerun(<<s, e>>, selected_categories, selected_accounts)

\* The user has picked only the first date of a new range: the widget returns
\* a tuple of one date.
PickStartDate ==
    /\ status = "ok"
    /\ HasDateWidget(raw_df)
    /\ \E s \in min_date(raw_df)..max_date(raw_df) :
        /\ <<s>> # date_range
        /\ Rerun(<<s>>, selected_categories, selected_accounts)

SelectCategories ==
    /\ status = "ok"
    /\ \E cats \in SUBSET all_categories(raw_df) :
        /\ cats # selected_categories
        /\ Rerun(date_range, cats, selected_accounts)

SelectAccounts ==
    /\ status = "ok"
    /\ \E accts \in SUBSET all_accounts(raw_df) :
        /\ accts # selected_accounts
        /\ Rerun(date_range, selected_categories, accts)

Next ==
    \/ Upload
    \/ RemoveFile
    \/ SelectDateRange
    \/ PickStartDate
    \/ SelectCategories
    \/ SelectAccounts

Spec == Init /\ [][Next]_vars

----------------------------------------------------------------------------
(* Vocabulary of the claims *)

\* The filter as the specification words it, over the values the page holds.
InFilter(r) ==
    /\ r.Date # NaT
    /\ start_date <= r.Date
    /\ r.Date <= end_date
    /\ r.Category \in selected_categories
    /\ r.Account \in selected_accounts

\* The sum of column col over the rows of df at the positions S.
RECURSIVE SumAt(_, _, _)
SumAt(df, S, col) ==
    IF S = {} THEN 0
    ELSE LET i == CHOOSE x \in S : TRUE
         IN  df[i][col] + SumAt(df, S \ {i}, col)

\* The file lines that have a row in the table df.
LinesOf(df) == {df[i].line : i \in 1..Len(df)}

\* The row of the table df made from file line i.
RowOf(df, i) == df[CHOOSE j \in 1..Len(df) : df[j].line = i]

\* A line as the specification's parser accepts it: at least six fields, a date
\* that parses, the two fields before the last numeric or empty.
WellFormed(line) ==
    /\ Len(line) >= ColCount
    /\ line[2].k = "date"
    /\ line[Len(line) - 2].k \in {"num", "empty"}
    /\ line[Len(line) - 1].k \in {"num", "empty"}

\* A six-field line whose only defect is a date that does not parse.
BadDateLine(line) ==
    /\ Len(line) = ColCount
    /\ line[2].k = "text"
    /\ line[4].k \in {"num", "empty"}
    /\ line[5].k \in {"num", "empty"}

Loaded == status = "ok"

----------------------------------------------------------------------------
(* C1: whatever the file and the filters, total_expense and total_income are *)
(* the sums of Expense and of Income over exactly the filtered rows, and     *)
(* net_flow is total_income - total_expense.                                 *)
C1_TotalsAreSumsOverFiltered ==
    Loaded =>
        LET S == {i \in 1..Len(raw_df) : InFilter(raw_df[i])}
        IN  /\ total_expense = SumAt(raw_df, S, "Expense")
            /\ total_income = SumAt(raw_df, S, "Income")
            /\ total_expense = SumAt(filtered_df, 1..Len(filtered_df), "Expense")
            /\ total_income = SumAt(filtered_df, 1..Len(filtered_df), "Income")
            /\ net_flow = total_income - total_expense

\* A narrowed filter that keeps some rows and drops others, the kept rows
\* holding an expense.
C1_Witness ==
    /\ Loaded
    /\ filtered_df # <<>>
    /\ Len(filtered_df) < Len(raw_df)
    /\ total_expense > 0
    /\ net_flow = 0 - total_expense

(* C2: the filtered set is exactly the rows with start_date <= date <=       *)
(* end_date (both inclusive), category among the selected categories and     *)
(* account among the selected accounts; an empty category or account         *)
(* selection gives an empty filtered set.                                    *)
C2_FilteredIsConjunction ==
    Loaded =>
        /\ filtered_df = SelectSeq(raw_df, InFilter)
        /\ (selected_categories = {} \/ selected_accounts = {}) => filtered_df = <<>>

\* A range narrowed to one day that is not the whole span: the rows of that
\* day are kept (both bounds inclusive), the others dropped.
C2_Witness ==
    /\ Loaded
    /\ Len(date_range) = 2
    /\ start_date = end_date
    /\ filtered_df # <<>>
    /\ Len(filtered_df) < Len(raw_df)

(* C3: on the same table, when each facet is narrowed or left alone (the     *)
(* date range shrunk to a sub-range, the category or the account selection   *)
(* replaced by a subset), the new filtered set is a subset of the old one    *)
(* and has no more rows.                                                     *)
C3_NarrowingIsMonotonic ==
    [][(/\ Loaded
        /\ Loaded'
        /\ raw_df' = raw_df
        /\ start_date' >= start_date
        /\ end_date' <= end_date
        /\ selected_categories' \subseteq selected_categories
        /\ selected_accounts' \subseteq selected_accounts)
       => (/\ LinesOf(filtered_df') \subseteq LinesOf(filtered_df)
           /\ Len(filtered_df') <= Len(filtered_df))]_vars

\* After a filter change, fewer categories are selected than the table has
\* and rows have gone from the filtered set.
C3_Witness ==
    /\ Loaded
    /\ parses > 1
    /\ selected_categories # all_categories(raw_df)
    /\ selected_categories # {}
    /\ filtered_df # <<>>
    /\ Len(filtered_df) < Len(raw_df)

C5_LongLineParsed ==
    (/\ uploaded_file # NoFile
     /\ \A i \in 1..Len(uploaded_file) : WellFormed(uploaded_file[i])
     /\ \E i \in 1..Len(uploaded_file) : Len(uploaded_file[i]) > ColCount)
    => /\ Loaded
       /\ \A i \in 1..Len(uploaded_file) :
            LET line == uploaded_file[i]
                n == Len(line)
            IN  /\ i \in LinesOf(raw_df)
                /\ RowOf(raw_df, i).Account = Strip(line[1])
                /\ RowOf(raw_df, i).Date = line[2].v
                /\ <<RowOf(raw_df, i).Description>> = SubSeq(line, 3, n - 3)
                /\ RowOf(raw_df, i).Expense = line[n - 2].v
                /\ RowOf(raw_df, i).Income = line[n - 1].v
                /\ RowOf(raw_df, i).Category = Strip(line[n])

(* C6: a line with fewer than six fields produces no record (and so changes  *)
(* no total and no facet set).                                               *)
C6_ShortLineDiscarded ==
    Loaded =>
        \A i \in 1..Len(uploaded_file) :
            Len(uploaded_file[i]) < ColCount => i \notin LinesOf(raw_df)

(* C7: a line whose date cannot be parsed is dropped alone: the file still   *)
(* loads, without the error message, and every other line keeps its record.  *)
C7_BadDateIsRowLevel ==
    (/\ uploaded_file # NoFile
     /\ \A i \in 1..Len(uploaded_file) :
            WellFormed(uploaded_file[i]) \/ BadDateLine(uploaded_file[i])
     /\ \E i \in 1..Len(uploaded_file) : BadDateLine(uploaded_file[i])
     /\ \E i \in 1..Len(uploaded_file) : WellFormed(uploaded_file[i]))
    => /\ status # "error"
       /\ \A i \in 1..Len(uploaded_file) :
            WellFormed(uploaded_file[i]) => i \in LinesOf(raw_df)

(* C8: in every table the parser returns, each record's Expense and Income   *)
(* are numbers greater than or equal to 0.                                   *)
C8_AmountsNonNegative ==
    Loaded =>
        \A j \in 1..Len(raw_df) : raw_df[j].Expense >= 0 /\ raw_df[j].Income >= 0

(* C9: the raw file is parsed once per upload: a filter change on the same   *)
(* upload does not call the parser again.                                    *)
C9_ParsedOncePerUpload ==
    parses <= 1

(* C10, as the specification states it: the listing holds the filtered rows  *)
(* with the most recent first (date non-increasing from first to last row).  *)
C10_ListingNewestFirst ==
    (Loaded /\ \A i \in 1..Len(uploaded_file) : WellFormed(uploaded_file[i])) =>
        /\ Len(display_df) = Len(filtered_df)
        /\ \A i, j \in 1..Len(display_df) :
            i < j => display_df[i].Date.of >= display_df[j].Date.of

(* C10, amended: the listing holds exactly the filtered rows, in their       *)
(* order, which is the order of the parsed table: date ascending, the oldest *)
(* first (date non-decreasing from the first row to the last).               *)
C10_ListingOldestFirst ==
    Loaded =>
        /\ Len(display_df) = Len(filtered_df)
        /\ \A i \in 1..Len(display_df) :
            /\ display_df[i].line = filtered_df[i].line
            /\ display_df[i].Date.of = filtered_df[i].Date
        /\ \A i, j \in 1..Len(display_df) :
            i < j => display_df[i].Date.of <= display_df[j].Date.of
        /\ \A i, j \in 1..Len(raw_df) :
            i < j => DateLE(raw_df[i].Date, raw_df[j].Date)

\* A listing of rows of different days, the older one first.
C10_Witness ==
    /\ Loaded
    /\ Len(display_df) >= 2
    /\ display_df[1].Date.of < display_df[Len(display_df)].Date.of

====
